---- MODULE Spec2Model ----
(***************************************************************************)
(* A model of the crypto risk analyzer (api/analyze.js, the complete file  *)
(* with cgHeaders and the search-by-name logic): the CryptoRiskAnalyzer    *)
(* class with its result cache, its per-client rate limiter, the identity  *)
(* resolution against the market-data provider, the three source fetchers  *)
(* and the five score functions.                                           *)
(*                                                                         *)
(* Five specifications share the module:                                   *)
(*   Spec       the analyze pipeline, concurrent invocations interleaved   *)
(*              at their await points, the clock and the eviction timers;  *)
(*   SpecLive   the pipeline with one call at a time and every outbound    *)
(*              call answered;                                             *)
(*   SpecRL     _checkRateLimit alone, called by clients at non-decreasing *)
(*              times on a fresh analyzer;                                 *)
(*   SpecScore  the fetchers' payload mappings and the score functions on  *)
(*              bounded payloads;                                          *)
(*   SpecDist   _calculateDecentralization on bounded distributions.       *)
(***************************************************************************)
EXTENDS Integers, Sequences, FiniteSets, TLC

VARIABLES
    now,            \* Date.now(), in ms
    encryptCache,   \* CONFIG.SECURITY.ENCRYPT_CACHE (NODE_ENV === 'production')
    cache,          \* this.cache: cache key -> stored result
    timers,         \* pending setTimeout callbacks, in the order set: records [key, due]
    requestCounts,  \* this.requestCounts: clientId -> sequence of timestamps
    inv,            \* the in-flight and returned analyze invocations
    lastFresh,      \* cache key -> the last result computed for it (history)
    started,        \* the number of analyze calls so far
    rlLast,         \* SpecRL: the last _checkRateLimit call and its outcome
    rlAdmitted,     \* SpecRL: timestamps of the admitted checks still inside the window
    payload,        \* SpecScore: the provider payloads under test
    scored          \* SpecScore: the aggregated record and its five scores

vars == <<now, encryptCache, cache, timers, requestCounts, inv, lastFresh, started,
          rlLast, rlAdmitted, payload, scored>>

(***************************************************************************)
(* JavaScript numbers.  A number is NaN, +Infinity, -Infinity or a finite  *)
(* value, kept as an exact fraction n/d in lowest terms (d > 0).  The      *)
(* operators follow IEEE-754 for the special values; a finite result is    *)
(* exact where the double is rounded, and the sign of zero is not kept.    *)
(* Amounts of money are in millions of USD (1e6), so that 5e9 is 5000:     *)
(* every formula of the code uses amounts only in ratios and in            *)
(* comparisons with 1e8 and 1e9.                                           *)
(***************************************************************************)
RECURSIVE GCD(_, _)
GCD(a, b) == IF b = 0 THEN a ELSE GCD(b, a % b)

AbsInt(n) == IF n < 0 THEN -n ELSE n

SgnInt(n) == IF n < 0 THEN -1 ELSE IF n > 0 THEN 1 ELSE 0

NaN == [k |-> "nan", n |-> 0, d |-> 0]

Infinity(s) == [k |-> "inf", n |-> s, d |-> 0]

Fin(n, d) ==
    LET g == GCD(AbsInt(n), d)
    IN  [k |-> "fin", n |-> n \div g, d |-> d \div g]

Num(n) == Fin(n, 1)

IsNaN(x) == x.k = "nan"

IsFinite(x) == x.k = "fin"

Sgn(x) == IF x.k = "inf" THEN x.n ELSE SgnInt(x.n)

Neg(x) == IF IsFinite(x) THEN Fin(-x.n, x.d)
          ELSE IF IsNaN(x) THEN NaN ELSE Infinity(-x.n)

Add(x, y) ==
    IF IsNaN(x) \/ IsNaN(y) THEN NaN
    ELSE IF x.k = "inf" /\ y.k = "inf"
         THEN (IF x.n = y.n THEN x ELSE NaN)
    ELSE IF x.k = "inf" THEN x
    ELSE IF y.k = "inf" THEN y
    ELSE Fin(x.n * y.d + y.n * x.d, x.d * y.d)

Sub(x, y) == Add(x, Neg(y))

Mul(x, y) ==
    IF IsNaN(x) \/ IsNaN(y) THEN NaN
    ELSE IF x.k = "inf" \/ y.k = "inf"
         THEN (IF Sgn(x) = 0 \/ Sgn(y) = 0 THEN NaN ELSE Infinity(Sgn(x) * Sgn(y)))
    ELSE Fin(x.n * y.n, x.d * y.d)

\* x / y: a zero divisor gives NaN for 0/0 and an infinity otherwise.
Div(x, y) ==
    IF IsNaN(x) \/ IsNaN(y) THEN NaN
    ELSE IF x.k = "inf"
         THEN (IF y.k = "inf" THEN NaN
               ELSE Infinity(IF Sgn(y) < 0 THEN -x.n ELSE x.n))
    ELSE IF y.k = "inf" THEN Num(0)
    ELSE IF y.n = 0
         THEN (IF x.n = 0 THEN NaN ELSE Infinity(SgnInt(x.n)))
    ELSE Fin(x.n * y.d * SgnInt(y.n), x.d * AbsInt(y.n))

\* x < y; false when either is NaN, as every comparison with NaN is.
Less(x, y) ==
    IF IsNaN(x) \/ IsNaN(y) THEN FALSE
    ELSE IF x.k = "inf" THEN x.n < 0 /\ ~(y.k = "inf" /\ y.n < 0)
    ELSE IF y.k = "inf" THEN y.n > 0
    ELSE x.n * y.d < y.n * x.d

MathMin(x, y) ==
    IF IsNaN(x) \/ IsNaN(y) THEN NaN ELSE IF Less(y, x) THEN y ELSE x

MathMax(x, y) ==
    IF IsNaN(x) \/ IsNaN(y) THEN NaN ELSE IF Less(x, y) THEN y ELSE x

MathAbs(x) ==
    IF IsNaN(x) THEN NaN
    ELSE IF x.k = "inf" THEN Infinity(1)
    ELSE Fin(AbsInt(x.n), x.d)

\* Math.round: the nearest integer, a half rounded towards +Infinity.
MathRound(x) ==
    IF IsFinite(x) THEN Num((2 * x.n + x.d) \div (2 * x.d)) ELSE x

MathCeil(x) ==
    IF IsFinite(x) THEN Num(-((-x.n) \div x.d)) ELSE x

\* Math.log10 on the holder counts a page of the holder list can give; the
\* values that are no power of ten are cut to three decimals.
MathLog10(x) ==
    IF IsNaN(x) \/ Sgn(x) < 0 THEN NaN
    ELSE IF x.k = "inf" THEN x
    ELSE IF x.n = 0 THEN Infinity(-1)
    ELSE CASE x = Num(1)   -> Num(0)
           [] x = Num(2)   -> Fin(301, 1000)
           [] x = Num(3)   -> Fin(477, 1000)
           [] x = Num(10)  -> Num(1)
           [] x = Num(100) -> Num(2)
           [] OTHER        -> NaN

\* x || y on numbers: 0 and NaN are falsy.
OrElse(x, y) == IF IsNaN(x) \/ (IsFinite(x) /\ x.n = 0) THEN y ELSE x

\* An integer of [0,100], as the spec's ScoreSet wants every score.
IsScore(x) == IsFinite(x) /\ x.d = 1 /\ x.n >= 0 /\ x.n <= 100

(***************************************************************************)
(* The source fetchers' payload mappings.  A payload is what the provider  *)
(* answered; a fetcher throws (the fetch fails) on a non-2xx answer or on  *)
(* a payload whose shape the mapping dereferences, and maps every other    *)
(* payload as it is.                                                       *)
(***************************************************************************)
RECURSIVE SumFirst(_, _)
\* hs.slice(0, p).reduce((s, h) => s + h, 0)
SumFirst(hs, p) ==
    IF p <= 0 \/ hs = <<>> THEN 0 ELSE Head(hs) + SumFirst(Tail(hs), p - 1)

\* _fetchCoinGeckoData's mapping of the market_data block d.
MarketSnapshot(d) ==
    [ current_price               |-> Num(d.price),
      price_change_percentage_24h |-> Num(d.change),
      market_cap                  |-> Num(d.cap),
      volume_24h                  |-> Num(d.vol),
      avg_volume_7d               |-> Div(Num(d.vol), Num(7)),
      avg_price_7d                |-> Num(d.price) ]

\* (hs, p) => hs.slice(0, p).reduce(...) / total * 100
HolderPct(hs, p, total) ==
    Mul(Div(Num(SumFirst(hs, p)), Num(total)), Num(100))

\* holders.filter(h => (h.balance / total) < 0.001)
RetailHolders(holders, total) ==
    SelectSeq(holders, LAMBDA b : Less(Div(Num(b), Num(total)), Fin(1, 1000)))

\* _fetchEtherscanData's mapping of the holder list (the balances, in the
\* order of the page).
HolderDistribution(holders) ==
    LET total == SumFirst(holders, Len(holders))
        cnt(f) == MathCeil(Mul(Num(Len(holders)), f)).n
    IN  [ top_1_pct      |-> HolderPct(holders, cnt(Fin(1, 100)), total),
          top_10_pct     |-> HolderPct(holders, cnt(Fin(1, 10)), total),
          top_100_pct    |-> HolderPct(SubSeq(holders, 1, IF Len(holders) < 100 THEN Len(holders) ELSE 100), 100, total),
          top_10_holders |-> HolderPct(SubSeq(holders, 1, IF Len(holders) < 10 THEN Len(holders) ELSE 10), 10, total),
          retail_pct     |-> HolderPct(RetailHolders(holders, total), Len(holders), total),
          total_holders  |-> Num(Len(holders)) ]

\* The holder snapshot of a native coin (no contract address), and the
\* percentile fields of _fetchSolanaData's result.
ZeroHolders ==
    [ top_1_pct |-> Num(0), top_10_pct |-> Num(0), top_100_pct |-> Num(0),
      top_10_holders |-> Num(0), retail_pct |-> Num(0), total_holders |-> Num(0) ]

RECURSIVE SortDesc(_)
\* d.pairs.sort((a, b) => b - a)
SortDesc(s) ==
    IF s = <<>> THEN <<>>
    ELSE LET i == CHOOSE j \in 1..Len(s) : \A k \in 1..Len(s) : s[j] >= s[k]
         IN  <<s[i]>> \o SortDesc(SubSeq(s, 1, i - 1) \o SubSeq(s, i + 1, Len(s)))

\* _fetchDexScreenerData's mapping of the pools' USD liquidity.
LiquiditySnapshot(pairs) ==
    LET tot == SumFirst(pairs, Len(pairs))
        top == SumFirst(SortDesc(pairs), 5)
    IN  [ liquidity                |-> Num(tot),
          top_5_pool_concentration |-> IF tot # 0 THEN Div(Num(top), Num(tot)) ELSE Num(0) ]

\* The liquidity snapshot of a native coin.
ZeroLiquidity == [ liquidity |-> Num(0), top_5_pool_concentration |-> Num(0) ]

(***************************************************************************)
(* The score functions, with the terms the code names.                     *)
(***************************************************************************)
volumeSpike(m) ==
    MathMin(Num(100), Mul(Sub(Div(m.volume_24h, m.avg_volume_7d), Num(1)), Num(40)))

priceSurge(m) ==
    MathMin(Num(100), Mul(Sub(Div(m.current_price, m.avg_price_7d), Num(1)), Num(100)))

whaleDominance(c) == MathMin(Num(100), Mul(c.top_10_holders, Fin(3, 2)))

_calculateGreedScore(m, c) ==
    MathRound(Add(Add(Mul(volumeSpike(m), Fin(1, 4)),
                      Mul(priceSurge(m), Fin(3, 10))),
                  Mul(whaleDominance(c), Fin(1, 4))))

\* The weights of the top 1% and of the top 10% exchanged.
_calculateDecentralizationSwapped(c) ==
    LET w == Add(Add(Mul(c.top_1_pct, Fin(1, 4)), Mul(c.top_10_pct, Fin(13, 20))),
                 Mul(c.top_100_pct, Fin(1, 10)))
    IN  MathRound(MathMax(Num(0), Sub(Num(100), w)))

_calculateDecentralization(c) ==
    LET w ==Add(Add(Mul(c.top_1_pct, Fin(13, 20)), Mul(c.top_10_pct, Fin(1, 4))),
                 Mul(c.top_100_pct, Fin(1, 10)))
    IN  MathRound(MathMax(Num(0), Sub(Num(100), w)))

holderFactor(c) ==
    Mul(MathMin(Num(10), MathLog10(OrElse(c.total_holders, Num(1)))), Num(2))

_calculateRetailScore(c) ==
    MathRound(MathMax(Num(0),
        Add(Sub(Mul(c.retail_pct, Fin(3, 2)), Mul(c.top_1_pct, Fin(4, 5))),
            holderFactor(c))))

volumeRatio(m) == Div(m.volume_24h, m.market_cap)

_calculateVolatility(m) ==
    LET pc == MathAbs(m.price_change_percentage_24h)
    IN  MathRound(MathMin(Num(100),
            Add(Mul(pc, Fin(3, 2)), Mul(Sub(Num(1), volumeRatio(m)), Num(30)))))

liquidityRatio(m, d) == Div(d.liquidity, m.market_cap)

\* 1e8 and 1e9, in millions.
TierSmallCap == 100

TierLargeCap == 1000

\* The tiers with their bounds counted in: 1e8 in the small tier, 1e9 in the
\* large one.
tierMultiplierInclusive(m) ==
    IF ~Less(m.market_cap, Num(TierLargeCap)) THEN Num(150)
    ELSE IF ~Less(Num(TierSmallCap), m.market_cap) THEN Num(200)
    ELSE Num(175)

tierMultiplier(m) ==
    IF Less(Num(TierLargeCap), m.market_cap) THEN Num(150)
    ELSE IF Less(m.market_cap, Num(TierSmallCap)) THEN Num(200)
    ELSE Num(175)

_calculateLiquidity(m, d) ==
    MathRound(MathMin(Num(100), Mul(liquidityRatio(m, d), tierMultiplier(m))))

\* The scores block of analyze's result.
Scores(m, c, d) ==
    [ greed            |-> _calculateGreedScore(m, c),
      decentralization |-> _calculateDecentralization(c),
      retail           |-> _calculateRetailScore(c),
      volatility       |-> _calculateVolatility(m),
      liquidity        |-> _calculateLiquidity(m, d) ]

ScoreNames == {"greed", "decentralization", "retail", "volatility", "liquidity"}

(***************************************************************************)
(* Configuration (CONFIG) and the rate limiter.                            *)
(***************************************************************************)
CACHE_TTL == 300000

MAX_REQUESTS_PER_MINUTE == 100

\* The 60_000 of _checkRateLimit's window.
RATE_WINDOW == 60000

\* An empty Map.
EmptyMap == [ x \in {} |-> <<>> ]

\* map.set(key, value)
MapSet(map, key, value) ==
    [ x \in DOMAIN map \cup {key} |-> IF x = key THEN value ELSE map[x] ]

\* One window for all clients: every stored timestamp, whoever made the check.
StoredWindowShared(counts, clientId) ==
    LET RECURSIVE All(_)
        All(cs) == IF cs = {} THEN <<>>
                   ELSE LET c == CHOOSE x \in cs : TRUE
                        IN  counts[c] \o All(cs \ {c})
    IN  All(DOMAIN counts)

\* this.requestCounts.get(clientId), after the has/set of an empty array.
StoredWindow(counts, clientId) ==
    IF clientId \in DOMAIN counts THEN counts[clientId] ELSE <<>>

\* A filter that also keeps the timestamp exactly one window old.
NewerThanInclusive(ts, win) == SelectSeq(ts, LAMBDA t : t >= win)

\* .filter(t => t > win)
NewerThan(ts, win) == SelectSeq(ts, LAMBDA t : t > win)

\* A check that stores its own timestamp over the window it read.
WindowAfterOverwrite(counts, clientId, t) == <<t>>

\* The array _checkRateLimit stores for clientId at time t: the stored
\* timestamps newer than t - 60000, and t.
WindowAfter(counts, clientId, t) ==
    Append(NewerThan(StoredWindow(counts, clientId), t - RATE_WINDOW), t)

\* The limit test off by one: the N-th check inside the window is denied.
RateLimitExceededAtLimit(arr) == Len(arr) >= MAX_REQUESTS_PER_MINUTE

\* Whether _checkRateLimit throws 'Rate limit' on the array it stored.
RateLimitExceeded(arr) == Len(arr) > MAX_REQUESTS_PER_MINUTE

(***************************************************************************)
(* SpecRL: _checkRateLimit called by clients at non-decreasing times on a  *)
(* fresh analyzer.  rlLast records the last call (its client, its time,    *)
(* the window stored before it and whether it was admitted); rlAdmitted    *)
(* keeps, per client, the times of its admitted checks that are still      *)
(* inside the trailing window of the clock.                                *)
(***************************************************************************)
RLClients == {"c1", "c2"}

\* The clock of SpecRL advances by half a window, MaxRLTicks times at most.
RLTick == RATE_WINDOW \div 2

MaxRLTicks == 3

\* The most entries a stored window grows to: the checks of the burst
\* client c1, and of every other client.
MaxBurst == 102

MaxOther == 1

WindowCap(clientId) == IF clientId = "c1" THEN MaxBurst ELSE MaxOther

InitRL ==
    /\ now = 0
    /\ encryptCache = FALSE
    /\ cache = EmptyMap
    /\ timers = <<>>
    /\ inv = <<>>
    /\ lastFresh = EmptyMap
    /\ started = 0
    /\ requestCounts = EmptyMap
    /\ rlLast = [ client |-> "", at |-> 0, before |-> <<>>, admitted |-> TRUE ]
    /\ rlAdmitted = [ c \in RLClients |-> <<>> ]
    /\ payload = [ kind |-> "native" ]
    /\ scored = [ done |-> FALSE ]

\* One call of _checkRateLimit(clientId) at the current time.
RLCheck(clientId) ==
    /\ Len(StoredWindow(requestCounts, clientId)) < WindowCap(clientId)
    /\ LET arr == WindowAfter(requestCounts, clientId, now)
           ok  == ~RateLimitExceeded(arr)
       IN  /\ requestCounts' = MapSet(requestCounts, clientId, arr)
           /\ rlLast' = [ client |-> clientId, at |-> now,
                          before |-> StoredWindow(requestCounts, clientId),
                          admitted |-> ok ]
           /\ rlAdmitted' = [ rlAdmitted EXCEPT ![clientId] =
                                IF ok THEN Append(@, now) ELSE @ ]
    /\ UNCHANGED <<now, encryptCache, cache, timers, inv, lastFresh, started, payload, scored>>

\* Time passes.
RLAdvance ==
    /\ now < MaxRLTicks * RLTick
    /\ now' = now + RLTick
    /\ rlAdmitted' = [ c \in RLClients |->
                         NewerThan(rlAdmitted[c], now' - RATE_WINDOW) ]
    /\ UNCHANGED <<encryptCache, cache, timers, requestCounts, inv, lastFresh,
                   started, rlLast, payload, scored>>

NextRL == (\E c \in RLClients : RLCheck(c)) \/ RLAdvance

SpecRL == InitRL /\ [][NextRL]_vars

\* The entries of the window stored before the last check that are strictly
\* newer than that check's time minus 60 s.
RLInsideBefore ==
    Cardinality({ i \in 1..Len(rlLast.before) :
                     rlLast.before[i] > rlLast.at - RATE_WINDOW })

\* C3: the 101st check of a client within 60 s is denied, and once the window
\* has slid past the time of the 1st of 101 checks, the 2nd to 101st still
\* inside, the next check of that client is admitted.
C3_BurstThenSlide ==
    rlLast.client # "" =>
        /\ (RLInsideBefore = MAX_REQUESTS_PER_MINUTE => ~rlLast.admitted)
        /\ (   /\ Len(rlLast.before) = MAX_REQUESTS_PER_MINUTE + 1
               /\ rlLast.before[1] <= rlLast.at - RATE_WINDOW
               /\ rlLast.before[2] > rlLast.at - RATE_WINDOW
            => rlLast.admitted)

\* C4: in every trailing 60 s interval at most N = 100 checks of a client
\* were admitted, and a check is denied exactly when the client's recorded
\* timestamps strictly newer than now - 60000, the current one counted,
\* exceed N.
C4_AtMostNAdmitted ==
    /\ \A c \in RLClients : Len(rlAdmitted[c]) <= MAX_REQUESTS_PER_MINUTE
    /\ rlLast.client # "" =>
          (rlLast.admitted <=> RLInsideBefore + 1 <= MAX_REQUESTS_PER_MINUTE)

\* A client with N admitted checks inside the window whose last check was
\* denied, while another client was admitted.
C4_Witness ==
    /\ rlLast.client = "c1"
    /\ ~rlLast.admitted
    /\ Len(rlAdmitted["c1"]) = MAX_REQUESTS_PER_MINUTE
    /\ Len(rlAdmitted["c2"]) = 1

(***************************************************************************)
(* SpecScore: aggregation and scoring of bounded provider payloads.        *)
(***************************************************************************)
\* The longest holder page and pool list drawn.
MaxHolders == 2

MaxPairs == 2

RECURSIVE SeqsUpTo(_, _)
\* The sequences over S of length at most n.
SeqsUpTo(S, n) ==
    IF n = 0 THEN {<<>>}
    ELSE LET shorter == SeqsUpTo(S, n - 1)
         IN  shorter \cup {Append(s, x) : s \in {t \in shorter : Len(t) = n - 1}, x \in S}

\* market_data blocks: price, 24h change in percent, market cap and 24h
\* volume (in millions), the degenerate ones included.
MarketPayloads ==
    [ price : {0, 10}, change : {-50, 5}, cap : {0, 50, 100, 1000, 5000}, vol : {0, 200, 6000} ]

\* Holder balances and pool liquidities (in millions) drawn.
Balances == {1, 3000}

PoolLiquidity == {0, 10}

\* What the asset of a scoring run is: a token on eth (holder list from the
\* holder provider), a token on sol (activity only) or a native coin.
AssetKinds == {"eth", "sol", "native"}

ScorePayloads ==
    [ kind    : AssetKinds,
      market  : MarketPayloads,
      holders : SeqsUpTo(Balances, MaxHolders),
      pairs   : SeqsUpTo(PoolLiquidity, MaxPairs) ]

\* The AggregatedRecord analyze builds from the three fetchers' results.
Aggregated(p) ==
    [ m |-> MarketSnapshot(p.market),
      c |-> IF p.kind = "eth" THEN HolderDistribution(p.holders) ELSE ZeroHolders,
      d |-> IF p.kind = "native" THEN ZeroLiquidity ELSE LiquiditySnapshot(p.pairs) ]

NotScored == [ done |-> FALSE ]

\* The variables a specification does not use stay as constructed.
PipelineIdle ==
    /\ now = 0
    /\ encryptCache = FALSE
    /\ cache = EmptyMap
    /\ timers = <<>>
    /\ requestCounts = EmptyMap
    /\ inv = <<>>
    /\ lastFresh = EmptyMap
    /\ started = 0

RateLimitIdle ==
    /\ rlLast = [ client |-> "", at |-> 0, before |-> <<>>, admitted |-> TRUE ]
    /\ rlAdmitted = [ c \in RLClients |-> <<>> ]

ScoreIdle ==
    /\ payload = [ kind |-> "native" ]
    /\ scored = NotScored

InitScore ==
    /\ PipelineIdle
    /\ RateLimitIdle
    /\ payload \in ScorePayloads
    /\ (payload.kind # "eth" => payload.holders = <<>>)
    /\ (payload.kind = "native" => payload.pairs = <<>>)
    /\ scored = NotScored

\* Aggregation and scoring, as analyze does them after Promise.all.
ScoreAggregate ==
    /\ ~scored.done
    /\ LET a == Aggregated(payload)
       IN  scored' = [ done |-> TRUE, m |-> a.m, c |-> a.c, d |-> a.d,
                       scores |-> Scores(a.m, a.c, a.d) ]
    /\ UNCHANGED <<now, encryptCache, cache, timers, requestCounts, inv,
                   lastFresh, started, rlLast, rlAdmitted, payload>>

NextScore == ScoreAggregate

SpecScore == InitScore /\ [][NextScore]_vars

\* C9: every score of every scored record is an integer of [0,100], the
\* degenerate records (zero market cap, zero holders, zero volume, volume
\* above market cap, negative price change) included.
C9_ScoresInRange ==
    scored.done => \A s \in ScoreNames : IsScore(scored.scores[s])

\* C10: every division of the scoring is guarded: with a zero marketCap,
\* avgVolume7d, avgPrice7d or totalHolders the affected term (volume ratio and
\* liquidity ratio, volume spike, price surge, holder factor) is 0, and a
\* native coin with zero liquidity and zero market cap has liquidity score 0.
C10_DivisionsGuarded ==
    scored.done =>
        /\ (scored.m.market_cap = Num(0) =>
               /\ volumeRatio(scored.m) = Num(0)
               /\ liquidityRatio(scored.m, scored.d) = Num(0))
        /\ (scored.m.avg_volume_7d = Num(0) => volumeSpike(scored.m) = Num(0))
        /\ (scored.m.avg_price_7d = Num(0) => priceSurge(scored.m) = Num(0))
        /\ (scored.c.total_holders = Num(0) => holderFactor(scored.c) = Num(0))
        /\ (payload.kind = "native" /\ scored.m.market_cap = Num(0)
               => scored.scores.liquidity = Num(0))

(***************************************************************************)
(* Strings, null and the validation patterns.                              *)
(***************************************************************************)
UNISWAP == "uniswap"

BAD_ID == "Bad_ID"

ETH_ADDR == "0x1f9840a85d5aF5bf1D1762F925BDADdC4201F984"

ETH_ADDR_LOWER == "0x1f9840a85d5af5bf1d1762f925bdaddc4201f984"

BAD_ADDR == "0x123"

SOL_ADDR == "So11111111111111111111111111111111111111112"

\* The characters of the strings of the model.
Chars(s) ==
    CASE s = "" -> <<>>
      [] s = UNISWAP ->
           <<"u", "n", "i", "s", "w", "a", "p">>
      [] s = BAD_ID ->
           <<"B", "a", "d", "_", "I", "D">>
      [] s = ETH_ADDR ->
           <<"0", "x", "1", "f", "9", "8", "4", "0", "a", "8", "5", "d", "5", "a", "F", "5", "b", "f", "1", "D", "1", "7", "6", "2", "F", "9", "2", "5", "B", "D", "A", "D", "d", "C", "4", "2", "0", "1", "F", "9", "8", "4">>
      [] s = ETH_ADDR_LOWER ->
           <<"0", "x", "1", "f", "9", "8", "4", "0", "a", "8", "5", "d", "5", "a", "f", "5", "b", "f", "1", "d", "1", "7", "6", "2", "f", "9", "2", "5", "b", "d", "a", "d", "d", "c", "4", "2", "0", "1", "f", "9", "8", "4">>
      [] s = BAD_ADDR ->
           <<"0", "x", "1", "2", "3">>
      [] s = SOL_ADDR ->
           <<"S", "o", "1", "1", "1", "1", "1", "1", "1", "1", "1", "1", "1", "1", "1", "1", "1", "1", "1", "1", "1", "1", "1", "1", "1", "1", "1", "1", "1", "1", "1", "1", "1", "1", "1", "1", "1", "1", "1", "1", "1", "1", "2">>

\* null, and the values an if or an || takes as false.
NULL == "(null)"

Falsy(x) == x = "" \/ x = NULL

\* a || b
OrStr(a, b) == IF Falsy(a) THEN b ELSE a

\* `${x}` in a template literal
Str(x) == IF x = NULL THEN "null" ELSE x

LowerLetters ==
    {"a", "b", "c", "d", "e", "f", "g", "h", "i", "j", "k", "l", "m",
     "n", "o", "p", "q", "r", "s", "t", "u", "v", "w", "x", "y", "z"}

UpperLetters ==
    {"A", "B", "C", "D", "E", "F", "G", "H", "I", "J", "K", "L", "M",
     "N", "O", "P", "Q", "R", "S", "T", "U", "V", "W", "X", "Y", "Z"}

Digits == {"0", "1", "2", "3", "4", "5", "6", "7", "8", "9"}

\* /^[a-z0-9-]+$/
TestCoinId(s) ==
    LET c == Chars(s)
    IN  Len(c) >= 1 /\ \A i \in 1..Len(c) : c[i] \in LowerLetters \cup Digits \cup {"-"}

\* /^0x[a-fA-F0-9]{40}$/
TestContractAddress(s) ==
    LET c == Chars(s)
    IN  /\ Len(c) = 42
        /\ c[1] = "0"
        /\ c[2] = "x"
        /\ \A i \in 3..42 :
              c[i] \in Digits \cup {"a", "b", "c", "d", "e", "f", "A", "B", "C", "D", "E", "F"}

\* /^[1-9A-HJ-NP-Za-km-z]{32,44}$/
TestSolanaAddress(s) ==
    LET c == Chars(s)
    IN  /\ Len(c) >= 32
        /\ Len(c) <= 44
        /\ \A i \in 1..Len(c) :
              c[i] \in ((Digits \ {"0"}) \cup (UpperLetters \ {"I", "O"}) \cup (LowerLetters \ {"l"}))

\* A validation that stops at the first violation it finds.
_validateInputFirst(coinId, contractAddress, chain) ==
    IF ~Falsy(coinId) /\ ~TestCoinId(coinId) THEN <<"Bad coinId">>
    ELSE IF ~Falsy(contractAddress) /\ chain = "eth" /\ ~TestContractAddress(contractAddress)
    THEN <<"Bad ETH address">>
    ELSE IF ~Falsy(contractAddress) /\ chain = "sol" /\ ~TestSolanaAddress(contractAddress)
    THEN <<"Bad SOL address">>
    ELSE <<>>

\* The violations _validateInput collects (errs), in order.
_validateInput(coinId, contractAddress, chain) ==
       (IF ~Falsy(coinId) /\ ~TestCoinId(coinId) THEN <<"Bad coinId">> ELSE <<>>)
    \o (IF ~Falsy(contractAddress) /\ chain = "eth" /\ ~TestContractAddress(contractAddress)
        THEN <<"Bad ETH address">> ELSE <<>>)
    \o (IF ~Falsy(contractAddress) /\ chain = "sol" /\ ~TestSolanaAddress(contractAddress)
        THEN <<"Bad SOL address">> ELSE <<>>)

\* The sha256 digest of `${coinId}:${contractAddress}:${chain}`, taken to be
\* free of collisions: the key is the three rendered parts.
CacheKey(coinId, contractAddress, chain) ==
    <<Str(coinId), Str(contractAddress), Str(chain)>>

(***************************************************************************)
(* Spec: the analyze pipeline.  The code between two awaits runs without   *)
(* interleaving, so an action is the arrival of a request or of a          *)
(* provider's answer together with the code that runs up to the next       *)
(* await (or to the return).                                               *)
(***************************************************************************)
\* Concurrent invocations.
NInv == 2

Invs == 1..NInv

\* The clock of Spec advances by a TTL, MaxTicks times at most.
Tick == CACHE_TTL

MaxTicks == 1

\* The analyze calls of a run.
MaxStarts == 2

\* The checks a client's stored window may hold before the model stops
\* taking its requests.
MaxChecks == 2

COIN_NAME == "Uniswap"

\* The request bodies the handler passes to analyze.
Requests ==
    { [ coinId |-> "", coinName |-> COIN_NAME, contractAddress |-> "", chain |-> "", clientId |-> "default" ],
      [ coinId |-> UNISWAP, coinName |-> "", contractAddress |-> ETH_ADDR_LOWER, chain |-> "eth", clientId |-> "default" ],
      [ coinId |-> UNISWAP, coinName |-> "", contractAddress |-> ETH_ADDR, chain |-> "eth", clientId |-> "c1" ],
      [ coinId |-> "", coinName |-> "", contractAddress |-> ETH_ADDR, chain |-> "eth", clientId |-> "default" ],
      [ coinId |-> BAD_ID, coinName |-> "", contractAddress |-> BAD_ADDR, chain |-> "eth", clientId |-> "default" ],
      [ coinId |-> UNISWAP, coinName |-> "", contractAddress |-> ETH_ADDR, chain |-> "", clientId |-> "default" ],
      [ coinId |-> "", coinName |-> "", contractAddress |-> BAD_ADDR, chain |-> "", clientId |-> "default" ],
      [ coinId |-> "", coinName |-> COIN_NAME, contractAddress |-> SOL_ADDR, chain |-> "", clientId |-> "default" ] }

\* The answers of the market-data provider to the resolution requests.
SearchReplies == {"ok", "notfound", "fail"}

DetailReplies ==
    { [ ok |-> TRUE,  ethereum |-> ETH_ADDR, solana |-> SOL_ADDR ],
      [ ok |-> TRUE,  ethereum |-> "",       solana |-> SOL_ADDR ],
      [ ok |-> TRUE,  ethereum |-> "",       solana |-> "" ],
      [ ok |-> FALSE, ethereum |-> "",       solana |-> "" ] }

ContractReplies == {"ok", "fail"}

\* The answers of the three sources: a failure (non-2xx, timeout, a payload
\* the mapping cannot dereference) or a payload.
MarketReplies ==
    { [ ok |-> FALSE, data |-> [ price |-> 0, change |-> 0, cap |-> 0, vol |-> 0 ] ],
      [ ok |-> TRUE,  data |-> [ price |-> 10, change |-> 5, cap |-> 5000, vol |-> 200 ] ] }

HolderReplies ==
    { [ ok |-> FALSE, data |-> <<>> ], [ ok |-> TRUE, data |-> <<3000, 1>> ] }

DexReplies ==
    { [ ok |-> FALSE, data |-> <<>> ], [ ok |-> TRUE, data |-> <<10>> ] }

Fetchers == {"market", "chainP", "dexP"}

NoData == [ none |-> TRUE ]

NoResult == [ pending |-> TRUE ]

NoPrior == [ fresh |-> FALSE ]

\* The arguments an invocation was called with, before resolution.
NoArguments == [ coinId |-> "", coinName |-> "", contractAddress |-> "", chain |-> "" ]

NotLaunched(snapshot) == [ st |-> "none", via |-> "", data |-> snapshot ]

Launched(provider) == [ st |-> "pending", via |-> provider, data |-> NoData ]

IdleInvocation ==
    [ pc |-> "idle", coinId |-> "", contractAddress |-> "", chain |-> "",
      clientId |-> "", coinName |-> "", t0 |-> 0, cacheKey |-> <<>>,
      market |-> NotLaunched(NoData), chainP |-> NotLaunched(NoData),
      dexP |-> NotLaunched(NoData),
      result |-> NoResult, thrown |-> <<>>, trace |-> <<>>,
      hitAge |-> -1, prior |-> NoPrior,
      given |-> NoArguments, platforms |-> NoData, t1 |-> -1 ]

\* Spec starts from the instance that has served client c1's first
\* MAX_REQUESTS_PER_MINUTE checks, all at time 0, and nothing else (SpecRL
\* reaches this window from the fresh instance).
BusyWindow == [ i \in 1..MAX_REQUESTS_PER_MINUTE |-> 0 ]

Init ==
    /\ now = 0
    /\ encryptCache \in BOOLEAN
    /\ cache = EmptyMap
    /\ timers = <<>>
    /\ requestCounts = MapSet(EmptyMap, "c1", BusyWindow)
    /\ inv = [ i \in Invs |-> IdleInvocation ]
    /\ lastFresh = EmptyMap
    /\ started = 0
    /\ RateLimitIdle
    /\ ScoreIdle

\* A catch block that hands the message on without the error flag.
CatchResultUnflagged(message, t0, t) ==
    [ message |-> message, processingTime |-> t - t0, timestamp |-> t ]

\* The value the catch block returns.
CatchResult(message, t0, t) ==
    [ error |-> TRUE, message |-> message, processingTime |-> t - t0, timestamp |-> t ]

\* The invocation r after a throw of message: the catch block returns.
Caught(r, message) ==
    [ r EXCEPT !.pc = "done", !.thrown = message, !.t1 = now,
               !.result = CatchResult(message, r.t0, now) ]

\* A catch block that stores the error value under the invocation's key.
LeaveCachingErrors(i, r) ==
    /\ inv' = [ inv EXCEPT ![i] = r ]
    /\ cache' = IF r.pc = "done" /\ r.thrown # <<>> /\ r.cacheKey # <<>>
                THEN [ x \in DOMAIN cache \cup {r.cacheKey} |->
                         IF x = r.cacheKey THEN r.result ELSE cache[x] ]
                ELSE cache
    /\ UNCHANGED <<timers, requestCounts, lastFresh>>

\* The invocation suspends at an await, or returns, with no effect on the
\* analyzer's maps.
Leave(i, r) ==
    /\ inv' = [ inv EXCEPT ![i] = r ]
    /\ UNCHANGED <<cache, timers, requestCounts, lastFresh>>

\* The launch test of the earlier revision of the file (part_001 line 576):
\* contractAddress && chain.
LaunchesWithChain(contractAddress, chain) == ~Falsy(contractAddress) /\ ~Falsy(chain)

\* Whether the holder/chain and the liquidity fetcher are launched.
LaunchesContractFetchers(contractAddress, chain) == ~Falsy(contractAddress)

\* A hit that returns the stored value as it is.
FromCacheUnflagged(stored) == stored

\* Line 216: { ...this.cache.get(cacheKey), fromCache: true }
FromCache(stored) ==
    [ x \in DOMAIN stored \cup {"fromCache"} |->
        IF x = "fromCache" THEN TRUE ELSE stored[x] ]

\* The cache lookup moved before the rate-limit check: a hit returns the
\* stored value without a check.
AdmitLookupFirst(i, r0) ==
    LET errs == IF ~Falsy(r0.contractAddress) /\ ~Falsy(r0.chain)
                THEN _validateInput(r0.coinId, r0.contractAddress, r0.chain)
                ELSE _validateInput(r0.coinId, NULL, NULL)
        r1   == [ r0 EXCEPT !.trace = Append(@, "validate") ]
        key  == CacheKey(r1.coinId, r1.contractAddress, r1.chain)
        r2   == [ r1 EXCEPT !.trace = Append(@, "lookup"), !.cacheKey = key,
                            !.hitAge = IF key \in DOMAIN cache
                                       THEN now - cache[key].timestamp ELSE -1,
                            !.prior = IF key \in DOMAIN lastFresh
                                         /\ now - lastFresh[key].timestamp < CACHE_TTL
                                      THEN [ fresh |-> TRUE,
                                             scores |-> lastFresh[key].scores,
                                             basic |-> lastFresh[key].basic ]
                                      ELSE NoPrior ]
        arr  == WindowAfter(requestCounts, r1.clientId, now)
        r3   == [ r2 EXCEPT !.trace = Append(@, "ratelimit") ]
        withContract == LaunchesContractFetchers(r3.contractAddress, r3.chain)
    IN  IF errs # <<>>
        THEN Leave(i, Caught(r1, <<"Validation failed">> \o errs))
        ELSE IF key \in DOMAIN cache
        THEN Leave(i, [ r2 EXCEPT !.pc = "done", !.t1 = now,
                                  !.result = FromCache(cache[key]) ])
        ELSE /\ requestCounts' = MapSet(requestCounts, r1.clientId, arr)
             /\ UNCHANGED <<cache, timers, lastFresh>>
             /\ IF RateLimitExceeded(arr)
                THEN inv' = [ inv EXCEPT ![i] = Caught(r3, <<"Rate limit">>) ]
                ELSE inv' = [ inv EXCEPT ![i] =
                                [ r3 EXCEPT
                                    !.pc = "fetching",
                                    !.trace = Append(@, "launch"),
                                    !.market = Launched("coingecko"),
                                    !.chainP = IF withContract
                                               THEN Launched(IF r3.chain = "eth"
                                                             THEN "etherscan" ELSE "helius")
                                               ELSE NotLaunched(ZeroHolders),
                                    !.dexP = IF withContract
                                             THEN Launched("dexscreener")
                                             ELSE NotLaunched(ZeroLiquidity) ] ]

\* Lines 210-228: validation, the rate-limit check, the cache lookup and
\* the launch of the fetchers.
Admit(i, r0) ==
    LET errs == IF ~Falsy(r0.contractAddress) /\ ~Falsy(r0.chain)
                THEN _validateInput(r0.coinId, r0.contractAddress, r0.chain)
                ELSE _validateInput(r0.coinId, NULL, NULL)
        r1   == [ r0 EXCEPT !.trace = Append(@, "validate") ]
        arr  == WindowAfter(requestCounts, r1.clientId, now)
        r2   == [ r1 EXCEPT !.trace = Append(@, "ratelimit") ]
        key  == CacheKey(r2.coinId, r2.contractAddress, r2.chain)
        r3   == [ r2 EXCEPT !.trace = Append(@, "lookup"), !.cacheKey = key,
                            !.hitAge = IF key \in DOMAIN cache
                                       THEN now - cache[key].timestamp ELSE -1,
                            !.prior = IF key \in DOMAIN lastFresh
                                         /\ now - lastFresh[key].timestamp < CACHE_TTL
                                      THEN [ fresh |-> TRUE,
                                             scores |-> lastFresh[key].scores,
                                             basic |-> lastFresh[key].basic ]
                                      ELSE NoPrior ]
        withContract == LaunchesContractFetchers(r3.contractAddress, r3.chain)
    IN  IF errs # <<>>
        THEN Leave(i, Caught(r1, <<"Validation failed">> \o errs))
        ELSE /\ requestCounts' = MapSet(requestCounts, r1.clientId, arr)
             /\ UNCHANGED <<cache, timers, lastFresh>>
             /\ IF RateLimitExceeded(arr)
                THEN inv' = [ inv EXCEPT ![i] = Caught(r2, <<"Rate limit">>) ]
                ELSE IF key \in DOMAIN cache
                THEN inv' = [ inv EXCEPT ![i] =
                                [ r3 EXCEPT !.pc = "done", !.t1 = now,
                                            !.result = FromCache(cache[key]) ] ]
                ELSE inv' = [ inv EXCEPT ![i] =
                                [ r3 EXCEPT
                                    !.pc = "fetching",
                                    !.trace = Append(@, "launch"),
                                    !.market = Launched("coingecko"),
                                    !.chainP = IF withContract
                                               THEN Launched(IF r3.chain = "eth"
                                                             THEN "etherscan" ELSE "helius")
                                               ELSE NotLaunched(ZeroHolders),
                                    !.dexP = IF withContract
                                             THEN Launched("dexscreener")
                                             ELSE NotLaunched(ZeroLiquidity) ] ]

\* Line 208: the contract-to-slug lookup, when coinId is still missing.
ResolveCoinIdStep(i, r) ==
    IF Falsy(r.coinId) /\ ~Falsy(r.contractAddress) /\ ~Falsy(r.chain)
    THEN Leave(i, [ r EXCEPT !.pc = "contract", !.trace = Append(@, "contract") ])
    ELSE Admit(i, r)

\* A resolution that makes the detail lookup whenever coinId is known.
ContractAndChainStepAlways(i, r) ==
    IF ~Falsy(r.coinId)
    THEN Leave(i, [ r EXCEPT !.pc = "detail", !.trace = Append(@, "detail") ])
    ELSE ResolveCoinIdStep(i, r)

\* Lines 203-207: the detail lookup, when contract address or chain is missing.
ContractAndChainStep(i, r) ==
    IF (Falsy(r.contractAddress) \/ Falsy(r.chain)) /\ ~Falsy(r.coinId)
    THEN Leave(i, [ r EXCEPT !.pc = "detail", !.trace = Append(@, "detail") ])
    ELSE ResolveCoinIdStep(i, r)

\* Whether any fetch of the invocation is still in flight.
InFlight(r) == \E f \in Fetchers : r[f].st = "pending"

\* A request that names coinId, contract address and chain.  The model takes
\* every request while no other invocation is in flight, and the requests
\* with a complete identity while one is.
CompleteIdentity(req) ==
    ~Falsy(req.coinId) /\ ~Falsy(req.contractAddress) /\ ~Falsy(req.chain)

\* A slot that can take the next call: the invocation it held has returned
\* and its fetches have settled.
Free(r) == r.pc \in {"idle", "done"} /\ ~InFlight(r)

\* handler calls analyze(coinId, contractAddress, chain, clientId, coinName):
\* t0, and line 202, the name search when no coinId is given.
Start(i, req) ==
    /\ started < MaxStarts
    /\ started' = started + 1
    /\ Free(inv[i])
    /\ \A j \in 1..(i - 1) : ~Free(inv[j])
    /\ (i > 1 => CompleteIdentity(req))
    /\ ~(Falsy(req.coinId) /\ Falsy(req.coinName) /\ Falsy(req.contractAddress))
    /\ Len(StoredWindow(requestCounts, req.clientId)) <
          (IF req.clientId = "c1" THEN MAX_REQUESTS_PER_MINUTE ELSE 0) + MaxChecks
    /\ LET r == [ IdleInvocation EXCEPT
                    !.pc = "run", !.coinId = req.coinId, !.coinName = req.coinName,
                    !.contractAddress = req.contractAddress, !.chain = req.chain,
                    !.clientId = req.clientId, !.t0 = now,
                    !.given = [ coinId |-> req.coinId, coinName |-> req.coinName,
                                contractAddress |-> req.contractAddress,
                                chain |-> req.chain ] ]
       IN  IF Falsy(r.coinId) /\ ~Falsy(r.coinName)
           THEN Leave(i, [ r EXCEPT !.pc = "search", !.trace = Append(@, "search") ])
           ELSE ContractAndChainStep(i, r)
    /\ UNCHANGED <<now, encryptCache, rlLast, rlAdmitted, payload, scored>>

\* slugFromName: data.coins[0].id of the search answer.
SearchHit(name) == UNISWAP

\* The search answers: slugFromName returns or throws.
SearchReply(i, reply) ==
    /\ inv[i].pc = "search"
    /\ CASE reply = "ok" ->
              ContractAndChainStep(i, [ inv[i] EXCEPT !.coinId = SearchHit(inv[i].coinName) ])
         [] reply = "notfound" ->
              Leave(i, Caught(inv[i], <<"Coin not found on CoinGecko">>))
         [] OTHER ->
              Leave(i, Caught(inv[i], <<"CoinGecko search failed">>))
    /\ UNCHANGED <<now, encryptCache, started, rlLast, rlAdmitted, payload, scored>>

\* A lookup that looks at the Solana platform first.
PlatformInfoSolanaFirst(reply) ==
    IF ~Falsy(reply.solana) THEN [ contractAddress |-> reply.solana, chain |-> "sol" ]
    ELSE IF ~Falsy(reply.ethereum) THEN [ contractAddress |-> reply.ethereum, chain |-> "eth" ]
    ELSE [ contractAddress |-> NULL, chain |-> NULL ]

\* contractAndChainFromSlug's result for the platforms of the detail answer.
PlatformInfo(reply) ==
    IF ~Falsy(reply.ethereum) THEN [ contractAddress |-> reply.ethereum, chain |-> "eth" ]
    ELSE IF ~Falsy(reply.solana) THEN [ contractAddress |-> reply.solana, chain |-> "sol" ]
    ELSE [ contractAddress |-> NULL, chain |-> NULL ]

\* The detail lookup answers: lines 204-206 fill what is missing.
DetailReply(i, reply) ==
    /\ inv[i].pc = "detail"
    /\ IF reply.ok
       THEN LET info == PlatformInfo(reply)
            IN  ResolveCoinIdStep(i,
                    [ inv[i] EXCEPT
                        !.platforms = [ ethereum |-> reply.ethereum,
                                        solana |-> reply.solana ],
                        !.contractAddress = OrStr(@, info.contractAddress),
                        !.chain = OrStr(@, info.chain) ])
       ELSE Leave(i, Caught(inv[i], <<"CoinGecko lookup failed">>))
    /\ UNCHANGED <<now, encryptCache, started, rlLast, rlAdmitted, payload, scored>>

\* The contract-to-slug lookup answers: resolveCoinId returns data.id or throws.
ContractReply(i, reply) ==
    /\ inv[i].pc = "contract"
    /\ IF reply = "ok"
       THEN Admit(i, [ inv[i] EXCEPT !.coinId = UNISWAP ])
       ELSE Leave(i, Caught(inv[i], <<"CoinGecko contract->slug failed">>))
    /\ UNCHANGED <<now, encryptCache, started, rlLast, rlAdmitted, payload, scored>>

\* An aggregate that waits for every promise before it rejects.
PromiseAllWaits(r) ==
    IF \E f \in Fetchers : r[f].st = "pending" THEN "pending"
    ELSE IF \E f \in Fetchers : r[f].st = "failed" THEN "rejected"
    ELSE "fulfilled"

\* An aggregate that never rejects: it stays pending after a failure.
PromiseAllNeverRejects(r) ==
    IF \A f \in Fetchers : r[f].st \in {"ok", "none"} THEN "fulfilled" ELSE "pending"

\* The state of Promise.all([marketP, chainP, dexP]).
PromiseAll(r) ==
    IF \E f \in Fetchers : r[f].st = "failed" THEN "rejected"
    ELSE IF \A f \in Fetchers : r[f].st \in {"ok", "none"} THEN "fulfilled"
    ELSE "pending"

\* Lines 232-250: the result built from the three snapshots.
BuildResult(r) ==
    [ basic |-> [ name             |-> OrStr(r.coinName, r.coinId),
                  price            |-> r.market.data.current_price,
                  price_change_24h |-> r.market.data.price_change_percentage_24h,
                  market_cap       |-> r.market.data.market_cap,
                  volume_24h       |-> r.market.data.volume_24h,
                  contract_address |-> r.contractAddress ],
      scores |-> Scores(r.market.data, r.chainP.data, r.dexP.data),
      processingTime |-> now - r.t0,
      timestamp |-> now ]

\* A store that does not look at ENCRYPT_CACHE.
CompleteAlwaysStores(i, r) ==
    LET res == BuildResult(r)
    IN  /\ inv' = [ inv EXCEPT ![i] =
                      [ r EXCEPT !.pc = "done", !.result = res, !.t1 = now,
                                 !.trace = Append(@, "score") \o <<"store">> ] ]
        /\ lastFresh' = [ x \in DOMAIN lastFresh \cup {r.cacheKey} |->
                            IF x = r.cacheKey THEN res ELSE lastFresh[x] ]
        /\ cache' = [ x \in DOMAIN cache \cup {r.cacheKey} |->
                        IF x = r.cacheKey THEN res ELSE cache[x] ]
        /\ timers' = Append(timers, [ key |-> r.cacheKey, due |-> now + CACHE_TTL ])
        /\ UNCHANGED requestCounts

\* Lines 232-256: scoring, the cache store with its eviction timer, return.
Complete(i, r) ==
    LET res == BuildResult(r)
    IN  /\ inv' = [ inv EXCEPT ![i] =
                      [ r EXCEPT !.pc = "done", !.result = res, !.t1 = now,
                                 !.trace = Append(@, "score") \o
                                           (IF encryptCache THEN <<"store">> ELSE <<>>) ] ]
        /\ lastFresh' = MapSet(lastFresh, r.cacheKey, res)
        /\ IF encryptCache
           THEN /\ cache' = MapSet(cache, r.cacheKey, res)
                /\ timers' = Append(timers, [ key |-> r.cacheKey, due |-> now + CACHE_TTL ])
           ELSE UNCHANGED <<cache, timers>>
        /\ UNCHANGED requestCounts

\* A fetcher's promise settles with snapshot (fulfilled) or rejects; the
\* continuation of the await on Promise.all, if it is due, runs with it.
\* Once analyze has returned nothing reads the promise: it is "settled".
Settle(i, f, ok, snapshot, message) ==
    /\ inv[i][f].st = "pending"
    /\ LET r == [ inv[i] EXCEPT ![f].st = IF ok THEN "ok" ELSE "failed",
                                ![f].data = IF ok THEN snapshot ELSE NoData ]
       IN  IF r.pc # "fetching"
           THEN Leave(i, [ inv[i] EXCEPT ![f].st = "settled" ])
           ELSE CASE PromiseAll(r) = "rejected"  -> Leave(i, Caught(r, message))
                  [] PromiseAll(r) = "fulfilled" -> Complete(i, r)
                  [] OTHER                       -> Leave(i, r)
    /\ UNCHANGED <<now, encryptCache, started, rlLast, rlAdmitted, payload, scored>>

\* _fetchCoinGeckoData settles.
MarketFetched(i, reply) ==
    Settle(i, "market", reply.ok, MarketSnapshot(reply.data), <<"CoinGecko API error">>)

\* _fetchEtherscanData or _fetchSolanaData settles.
ChainFetched(i, reply) ==
    IF inv[i].chainP.via = "etherscan"
    THEN Settle(i, "chainP", reply.ok, HolderDistribution(reply.data), <<"Etherscan API error">>)
    ELSE Settle(i, "chainP", reply.ok, ZeroHolders, <<"Helius API error">>)

\* _fetchDexScreenerData settles.
DexFetched(i, reply) ==
    Settle(i, "dexP", reply.ok, LiquiditySnapshot(reply.data), <<"DexScreener API error">>)

\* The eviction timer set first is due and its callback runs:
\* this.cache.delete(cacheKey).
Evict ==
    /\ timers # <<>>
    /\ Head(timers).due <= now
    /\ cache' = [ k \in DOMAIN cache \ {Head(timers).key} |-> cache[k] ]
    /\ timers' = Tail(timers)
    /\ UNCHANGED <<now, encryptCache, requestCounts, inv, lastFresh, started,
                   rlLast, rlAdmitted, payload, scored>>

\* Time passes.
Advance ==
    /\ now < MaxTicks * Tick
    /\ now' = now + Tick
    /\ UNCHANGED <<encryptCache, cache, timers, requestCounts, inv, lastFresh,
                   started, rlLast, rlAdmitted, payload, scored>>

Next ==
    \/ \E i \in Invs, req \in Requests : Start(i, req)
    \/ \E i \in Invs, reply \in SearchReplies : SearchReply(i, reply)
    \/ \E i \in Invs, reply \in DetailReplies : DetailReply(i, reply)
    \/ \E i \in Invs, reply \in ContractReplies : ContractReply(i, reply)
    \/ \E i \in Invs, reply \in MarketReplies : MarketFetched(i, reply)
    \/ \E i \in Invs, reply \in HolderReplies : ChainFetched(i, reply)
    \/ \E i \in Invs, reply \in DexReplies : DexFetched(i, reply)
    \/ Evict
    \/ Advance

Spec == Init /\ [][Next]_vars

\* The steps an invocation has taken, as a set.
Steps(i) == { inv[i].trace[k] : k \in 1..Len(inv[i].trace) }

Returned(i) == inv[i].pc = "done"

IsErrorResult(res) ==
    /\ DOMAIN res = {"error", "message", "processingTime", "timestamp"}
    /\ res.error = TRUE

IsSuccessResult(res) ==
    /\ {"basic", "scores", "processingTime", "timestamp"} \subseteq DOMAIN res
    /\ "error" \notin DOMAIN res

\* C1: analyze never raises: an invocation that has left its last await has
\* returned a value, and where something was thrown inside it (search,
\* lookup, validation, rate limit, a fetch) the value is exactly
\* {error: true, message, processingTime, timestamp} with the thrown message,
\* while without a throw it is a result with scores and basic and no error.
C1_FailureReturnsErrorValue ==
    \A i \in Invs :
        /\ inv[i].pc \in {"idle", "search", "detail", "contract", "fetching", "done"}
        /\ (inv[i].thrown # <<>> => Returned(i))
        /\ (Returned(i) =>
              IF inv[i].thrown # <<>>
              THEN /\ IsErrorResult(inv[i].result)
                   /\ inv[i].result.message = inv[i].thrown
                   /\ inv[i].result.processingTime = inv[i].result.timestamp - inv[i].t0
              ELSE IsSuccessResult(inv[i].result))

\* Both invocations have failed, one on its validation and one on a fetch.
C1_Witness ==
    /\ Returned(1) /\ inv[1].thrown = <<"DexScreener API error">>
    /\ Returned(2) /\ inv[2].thrown = <<"Validation failed", "Bad coinId", "Bad ETH address">>

\* C2: the rate-limit check of an invocation comes before its resolution
\* requests and its validation, so an invocation that has returned, a failed
\* resolution or validation included, has recorded a timestamp.
C2_AdmissionCheckFirst ==
    \A i \in Invs :
        LET tr == inv[i].trace
        IN  /\ \A k \in 1..Len(tr) :
                  tr[k] \in {"search", "detail", "contract", "validate"}
                      => \E j \in 1..(k - 1) : tr[j] = "ratelimit"
            /\ (Returned(i) => "ratelimit" \in Steps(i))

\* C5: a result returned from the cache was stored less than CACHE_TTL
\* before its lookup.
C5_NoStaleHit ==
    \A i \in Invs :
        Returned(i) /\ "fromCache" \in DOMAIN inv[i].result
            => inv[i].hitAge < CACHE_TTL

\* C6: an admitted call whose triple was analysed with success less than
\* CACHE_TTL before its lookup returns that result's scores and basic,
\* flagged fromCache.
C6_SecondCallFromCache ==
    \A i \in Invs :
        Returned(i) /\ "lookup" \in Steps(i) /\ inv[i].prior.fresh
            => /\ "fromCache" \in DOMAIN inv[i].result
               /\ inv[i].result.fromCache = TRUE
               /\ inv[i].result.scores = inv[i].prior.scores
               /\ inv[i].result.basic = inv[i].prior.basic

\* C7: aggregation is fail-fast: as soon as one launched fetch has failed
\* the invocation has returned an error value without scores, whatever the
\* other fetches do, and a fresh success result means every launched fetch
\* succeeded.
C7_FailFast ==
    \A i \in Invs :
        /\ ((\E f \in Fetchers : inv[i][f].st = "failed")
               => Returned(i) /\ IsErrorResult(inv[i].result))
        /\ (Returned(i) /\ "launch" \in Steps(i) /\ IsSuccessResult(inv[i].result)
               => \A f \in Fetchers : inv[i][f].st \in {"ok", "none"})

\* The liquidity fetch failed after the market and the holder fetch had
\* succeeded, and the invocation has returned.
C7_Witness ==
    \E i \in Invs :
        /\ Returned(i)
        /\ inv[i].market.st = "ok"
        /\ inv[i].chainP.st = "ok"
        /\ inv[i].dexP.st = "failed"

\* C8: an invocation that has launched its fetchers has launched the
\* market fetcher, and the holder/chain and the liquidity fetcher exactly
\* when its resolved contract address is present; without it the two are
\* the zero-valued snapshots and nothing was asked of their providers.
C8_LaunchRule ==
    \A i \in Invs :
        "launch" \in Steps(i) =>
            /\ inv[i].market.st # "none"
            /\ inv[i].market.via = "coingecko"
            /\ IF ~Falsy(inv[i].contractAddress)
               THEN /\ inv[i].chainP.st # "none"
                    /\ inv[i].chainP.via \in {"etherscan", "helius"}
                    /\ inv[i].dexP.st # "none"
                    /\ inv[i].dexP.via = "dexscreener"
               ELSE /\ inv[i].chainP = NotLaunched(ZeroHolders)
                    /\ inv[i].dexP = NotLaunched(ZeroLiquidity)

\* A native coin found by name and a token are both under aggregation.
C8_Witness ==
    /\ "launch" \in Steps(1) /\ Falsy(inv[1].contractAddress)
    /\ inv[1].chainP.st = "none"
    /\ "launch" \in Steps(2) /\ ~Falsy(inv[2].contractAddress)
    /\ inv[2].chainP.st = "pending" /\ inv[2].dexP.st = "pending"

\* C11: an invocation that has launched its fetchers has a non-empty
\* resolved coinId, and one from whose arguments no coinId can be derived has
\* made no validation, rate-limit, cache or fetch step.
C11_UsableIdentity ==
    \A i \in Invs :
        /\ ("launch" \in Steps(i) => ~Falsy(inv[i].coinId))
        /\ (   /\ inv[i].pc # "idle"
               /\ Falsy(inv[i].given.coinId)
               /\ Falsy(inv[i].given.coinName)
               /\ Falsy(inv[i].given.chain)
            => Steps(i) \cap {"validate", "ratelimit", "lookup", "launch"} = {})

\* The chain of the invocation was filled from the detail lookup's answer.
ChainFromLookup(i) == inv[i].platforms # NoData /\ Falsy(inv[i].given.chain)

\* C12: a contract address, a chain and a coinId given by the caller are
\* kept as given, and when a name and a contract address are given the chain
\* does not come from the lookup of the asset the name search returned.
C12_ResolutionPrecedence ==
    \A i \in Invs :
        inv[i].pc # "idle" =>
            /\ (~Falsy(inv[i].given.contractAddress)
                   => inv[i].contractAddress = inv[i].given.contractAddress)
            /\ (~Falsy(inv[i].given.chain) => inv[i].chain = inv[i].given.chain)
            /\ (~Falsy(inv[i].given.coinId) => inv[i].coinId = inv[i].given.coinId)
            /\ (   /\ ~Falsy(inv[i].given.coinName)
                   /\ ~Falsy(inv[i].given.contractAddress)
                   /\ "search" \in Steps(i)
                => ~ChainFromLookup(i))

\* C13: a contract address handed to the holder/chain or the liquidity
\* fetcher has passed the format check of its chain, eth or sol; with a
\* missing or other chain no address is handed to either.
C13_CheckedAddressOnly ==
    \A i \in Invs :
        (inv[i].chainP.st # "none" \/ inv[i].dexP.st # "none") =>
            \/ inv[i].chain = "eth" /\ TestContractAddress(inv[i].contractAddress)
            \/ inv[i].chain = "sol" /\ TestSolanaAddress(inv[i].contractAddress)

\* The parts of the message of what an invocation threw.
Thrown(i) == { inv[i].thrown[k] : k \in 1..Len(inv[i].thrown) }

\* C14: an invocation that has made its validation with a malformed coinId
\* or a malformed address of its chain has returned the error value whose
\* message names every one of the violations, and has launched no fetcher;
\* a validation failure is reported for no other invocation.
C14_EveryViolationReported ==
    \A i \in Invs :
        "validate" \in Steps(i) =>
            LET checked == ~Falsy(inv[i].contractAddress) /\ ~Falsy(inv[i].chain)
                badId   == ~Falsy(inv[i].coinId) /\ ~TestCoinId(inv[i].coinId)
                badEth  == /\ checked
                           /\ inv[i].chain = "eth"
                           /\ ~TestContractAddress(inv[i].contractAddress)
                badSol  == /\ checked
                           /\ inv[i].chain = "sol"
                           /\ ~TestSolanaAddress(inv[i].contractAddress)
            IN  /\ (badId \/ badEth \/ badSol) <=> "Validation failed" \in Thrown(i)
                /\ "Validation failed" \in Thrown(i) =>
                      /\ Returned(i)
                      /\ IsErrorResult(inv[i].result)
                      /\ inv[i].result.message = inv[i].thrown
                      /\ (badId <=> "Bad coinId" \in Thrown(i))
                      /\ (badEth <=> "Bad ETH address" \in Thrown(i))
                      /\ (badSol <=> "Bad SOL address" \in Thrown(i))
                      /\ "launch" \notin Steps(i)
                      /\ \A f \in Fetchers : inv[i][f].st = "none"

\* A call with a malformed coinId and a malformed eth address has returned.
C14_Witness ==
    \E i \in Invs :
        /\ Returned(i)
        /\ inv[i].given.coinId = BAD_ID
        /\ inv[i].given.contractAddress = BAD_ADDR
        /\ inv[i].given.chain = "eth"
        /\ {"Bad coinId", "Bad ETH address"} \subseteq Thrown(i)

\* The hex digit ch in lower case.
LowerHex(ch) ==
    CASE ch = "A" -> "a" [] ch = "B" -> "b" [] ch = "C" -> "c"
      [] ch = "D" -> "d" [] ch = "E" -> "e" [] ch = "F" -> "f"
      [] OTHER -> ch

\* Two eth addresses that differ at most in the case of their hex digits.
SameAddress(a, b) ==
    /\ Len(Chars(a)) = Len(Chars(b))
    /\ \A k \in 1..Len(Chars(a)) : LowerHex(Chars(a)[k]) = LowerHex(Chars(b)[k])

\* C15: two invocations whose resolved triples are the same identity up to
\* the case of the hex digits of the eth contract address look up the same
\* cache key.
C15_KeyIgnoresCase ==
    \A i, j \in Invs :
        (   /\ "lookup" \in Steps(i)
            /\ "lookup" \in Steps(j)
            /\ inv[i].coinId = inv[j].coinId
            /\ inv[i].chain = "eth"
            /\ inv[j].chain = "eth"
            /\ TestContractAddress(inv[i].contractAddress)
            /\ TestContractAddress(inv[j].contractAddress)
            /\ SameAddress(inv[i].contractAddress, inv[j].contractAddress))
        => inv[i].cacheKey = inv[j].cacheKey

\* The steps invocation i takes in the transition; a call starts in the
\* first free slot.
NewSteps(i) ==
    LET from == IF /\ started' # started
                   /\ Free(inv[i])
                   /\ \A j \in 1..(i - 1) : ~Free(inv[j])
                THEN 0 ELSE Len(inv[i].trace)
    IN  { inv'[i].trace[k] : k \in (from + 1)..Len(inv'[i].trace) }

\* Every stored value is a complete success result of the key's identity.
CacheSound ==
    \A key \in DOMAIN cache :
        /\ IsSuccessResult(cache[key])
        /\ DOMAIN cache[key] = {"basic", "scores", "processingTime", "timestamp"}
        /\ DOMAIN cache[key].scores = ScoreNames
        /\ Str(cache[key].basic.contract_address) = key[2]
        /\ key \in DOMAIN lastFresh
        /\ cache[key] = lastFresh[key]

\* A client's window changes only by a check of that client, which keeps the
\* timestamps still inside the window and adds its own.
WindowStep ==
    \A c \in DOMAIN requestCounts' \cup {"default"} :
        LET checks == { i \in Invs : "ratelimit" \in NewSteps(i) /\ inv'[i].clientId = c }
        IN  IF checks = {}
            THEN StoredWindow(requestCounts', c) = StoredWindow(requestCounts, c)
            ELSE /\ Cardinality(checks) = 1
                 /\ StoredWindow(requestCounts', c) =
                       Append(NewerThan(StoredWindow(requestCounts, c), now - RATE_WINDOW), now)

\* A key's entry changes only to the result of an invocation of that key
\* that returns with success in the transition, or is deleted by a timer.
CacheStep ==
    /\ \A key \in DOMAIN cache' :
          (key \notin DOMAIN cache \/ cache'[key] # cache[key]) =>
              \E i \in Invs :
                  /\ inv[i].pc = "fetching"
                  /\ inv'[i].pc = "done"
                  /\ inv'[i].cacheKey = key
                  /\ inv'[i].thrown = <<>>
                  /\ inv'[i].result = cache'[key]
    /\ (DOMAIN cache \ DOMAIN cache' # {} =>
          /\ timers # <<>>
          /\ timers' = Tail(timers)
          /\ DOMAIN cache \ DOMAIN cache' = {Head(timers).key})

\* C16: under invocations interleaved at their awaits every rate-limit
\* check adds exactly one timestamp to its client's window and loses none,
\* and every value in the cache is a complete success result of an
\* invocation of that key, also when two invocations of one key both store.
C16_SharedStateSound == []CacheSound /\ [][WindowStep /\ CacheStep]_vars

\* Two invocations of one key have both missed, fetched and stored.
C16_Witness ==
    /\ {"launch", "store"} \subseteq Steps(1)
    /\ {"launch", "store"} \subseteq Steps(2)
    /\ inv[1].cacheKey = inv[2].cacheKey
    /\ Len(timers) = 2
    /\ Len(StoredWindow(requestCounts, "default")) = 2

\* Every outbound call of invocation i completes or fails (the timeout option
\* of fetch): the answer an invocation waits for does arrive.
Answered(i) ==
    /\ WF_vars(\E reply \in SearchReplies : SearchReply(i, reply))
    /\ WF_vars(\E reply \in DetailReplies : DetailReply(i, reply))
    /\ WF_vars(\E reply \in ContractReplies : ContractReply(i, reply))
    /\ WF_vars(\E reply \in MarketReplies : MarketFetched(i, reply))
    /\ WF_vars(\E reply \in HolderReplies : ChainFetched(i, reply))
    /\ WF_vars(\E reply \in DexReplies : DexFetched(i, reply))

\* A call made while no other invocation is in flight.
StartAlone(req) ==
    /\ \A j \in Invs : Free(inv[j])
    /\ Start(1, req)

NextLive ==
    \/ \E req \in Requests : StartAlone(req)
    \/ \E i \in Invs, reply \in SearchReplies : SearchReply(i, reply)
    \/ \E i \in Invs, reply \in DetailReplies : DetailReply(i, reply)
    \/ \E i \in Invs, reply \in ContractReplies : ContractReply(i, reply)
    \/ \E i \in Invs, reply \in MarketReplies : MarketFetched(i, reply)
    \/ \E i \in Invs, reply \in HolderReplies : ChainFetched(i, reply)
    \/ \E i \in Invs, reply \in DexReplies : DexFetched(i, reply)
    \/ Evict
    \/ Advance

\* The pipeline, one call after the other, with every outbound call answered.
SpecLive == Init /\ [][NextLive]_vars /\ \A i \in Invs : Answered(i)

Waiting(i) == inv[i].pc \in {"search", "detail", "contract", "fetching"}

\* C17: with every outbound call answered, an invocation that waits at an
\* await eventually returns.
C17_EventuallyReturns == \A i \in Invs : Waiting(i) ~> Returned(i)

\* An invocation has returned a success after the name search, the detail
\* lookup and its fetches.
C17_Witness ==
    \E i \in Invs :
        /\ Returned(i)
        /\ {"search", "detail", "launch", "score"} \subseteq Steps(i)
        /\ inv[i].thrown = <<>>

\* C18: the processingTime of every returned result, a cache hit included,
\* is the time between the entry and the exit of the invocation that
\* returned it.
C18_ProcessingTimeIsElapsed ==
    \A i \in Invs :
        Returned(i) => inv[i].result.processingTime = inv[i].t1 - inv[i].t0

\* The detail lookup of invocation i answered with no platform address.
NativeAnswer(i) ==
    /\ inv[i].platforms # NoData
    /\ Falsy(inv[i].platforms.ethereum)
    /\ Falsy(inv[i].platforms.solana)

\* C19: after the detail lookup a missing chain is eth when the answer has
\* an Ethereum address, also next to a Solana one, else sol when it has a
\* Solana address, else none, and a missing contract address is the address
\* of that platform, else none; the native outcome is no error: the
\* invocation goes on to its validation and returns a success result once
\* its market fetch has succeeded.
C19_PlatformPriority ==
    \A i \in Invs :
        inv[i].platforms # NoData =>
            LET p == inv[i].platforms
            IN  /\ (Falsy(inv[i].given.chain) =>
                       IF ~Falsy(p.ethereum) THEN inv[i].chain = "eth"
                       ELSE IF ~Falsy(p.solana) THEN inv[i].chain = "sol"
                       ELSE inv[i].chain = NULL)
                /\ (Falsy(inv[i].given.contractAddress) =>
                       IF ~Falsy(p.ethereum) THEN inv[i].contractAddress = p.ethereum
                       ELSE IF ~Falsy(p.solana) THEN inv[i].contractAddress = p.solana
                       ELSE inv[i].contractAddress = NULL)
                /\ (NativeAnswer(i) /\ Falsy(inv[i].contractAddress) =>
                       /\ "validate" \in Steps(i)
                       /\ inv[i].thrown \in {<<>>, <<"Rate limit">>, <<"CoinGecko API error">>}
                       /\ (inv[i].market.st = "ok" =>
                              /\ Returned(i)
                              /\ inv[i].thrown = <<>>
                              /\ IsSuccessResult(inv[i].result)
                              /\ inv[i].result.basic.contract_address = NULL))

\* A native coin found by name has returned a success result.
C19_Witness ==
    \E i \in Invs :
        /\ NativeAnswer(i)
        /\ Falsy(inv[i].given.contractAddress)
        /\ Returned(i)
        /\ inv[i].market.st = "ok"
        /\ IsSuccessResult(inv[i].result)

ResolutionSteps == {"search", "detail", "contract"}

\* C20: the name search is made only for a call without coinId, the detail
\* lookup only for one without contract address or chain, the contract
\* lookup only while coinId is missing (none given, none found by name), and
\* a call with all three makes no resolution request.
C20_OnlyMissingResolved ==
    \A i \in Invs :
        /\ ("search" \in Steps(i) => Falsy(inv[i].given.coinId))
        /\ ("detail" \in Steps(i) =>
               Falsy(inv[i].given.contractAddress) \/ Falsy(inv[i].given.chain))
        /\ ("contract" \in Steps(i) =>
               Falsy(inv[i].given.coinId) /\ "search" \notin Steps(i))
        /\ (   /\ ~Falsy(inv[i].given.coinId)
               /\ ~Falsy(inv[i].given.contractAddress)
               /\ ~Falsy(inv[i].given.chain)
            => Steps(i) \cap ResolutionSteps = {})

\* A call by name has made its search and its detail lookup, and a call
\* with coinId, contract address and chain is fetching without any lookup.
C20_Witness ==
    /\ {"search", "detail", "launch"} \subseteq Steps(1)
    /\ ~Falsy(inv[2].given.coinId)
    /\ ~Falsy(inv[2].given.contractAddress)
    /\ ~Falsy(inv[2].given.chain)
    /\ "launch" \in Steps(2)
    /\ Steps(2) \cap ResolutionSteps = {}

(***************************************************************************)
(* The score formulas, on the records SpecScore scores.                    *)
(***************************************************************************)
\* C21: the liquidity score is round(clamp((liquidity / marketCap) * mult))
\* with mult 200 below a market cap of 1e8, 150 above 1e9 and 175 otherwise,
\* 175 at exactly 1e8 and at exactly 1e9; liquidity 1e7 at market cap 5e9
\* scores 0.  The clamp is max(0, min(100, x)) in the code's arithmetic.
C21_LiquidityTiers ==
    scored.done =>
        LET cap  == payload.market.cap
            liq  == scored.d.liquidity
            mult == IF cap < 100 THEN 200 ELSE IF cap > 1000 THEN 150 ELSE 175
        IN  /\ scored.scores.liquidity =
                   MathRound(MathMax(Num(0), MathMin(Num(100),
                       Mul(Div(liq, Num(cap)), Num(mult)))))
            /\ (cap \in {100, 1000} => tierMultiplier(scored.m) = Num(175))
            /\ (liq = Num(10) /\ cap = 5000 => scored.scores.liquidity = Num(0))

\* A token at a market cap of exactly 1e9 with 2e7 of liquidity: 0.02 * 175
\* = 3.5, scored 4 (150 would give 3).
C21_Witness ==
    /\ scored.done
    /\ scored.m.market_cap = Num(1000)
    /\ scored.d.liquidity = Num(20)
    /\ scored.scores.liquidity = Num(4)

(***************************************************************************)
(* SpecDist: _calculateDecentralization on holder distributions whose      *)
(* three percentages are drawn from 0..100.                                *)
(***************************************************************************)
Percentages == {0, 20, 40, 60, 100}

DistPayloads ==
    [ kind : {"holders"}, top1 : Percentages, top10 : Percentages, top100 : Percentages ]

\* The holder snapshot (c) with the three percentages of p.
HolderSnapshot(p) ==
    [ ZeroHolders EXCEPT !.top_1_pct = Num(p.top1), !.top_10_pct = Num(p.top10),
                         !.top_100_pct = Num(p.top100) ]

InitDist ==
    /\ PipelineIdle
    /\ RateLimitIdle
    /\ payload \in DistPayloads
    /\ scored = NotScored

ScoreDecentralization ==
    /\ ~scored.done
    /\ scored' = [ done |-> TRUE, c |-> HolderSnapshot(payload),
                   decentralization |-> _calculateDecentralization(HolderSnapshot(payload)) ]
    /\ UNCHANGED <<now, encryptCache, cache, timers, requestCounts, inv,
                   lastFresh, started, rlLast, rlAdmitted, payload>>

NextDist == ScoreDecentralization

SpecDist == InitDist /\ [][NextDist]_vars

\* C22: for percentages in 0..100 the decentralization score is
\* round(clamp(100 - (0.65*top1Pct + 0.25*top10Pct + 0.10*top100Pct))); it is
\* 100 for the zero distribution and 71 for (20, 40, 60), and it does not
\* increase when any of the three percentages increases.
C22_DecentralizationFormula ==
    scored.done =>
        LET p == payload
            w == Fin(65 * p.top1 + 25 * p.top10 + 10 * p.top100, 100)
        IN  /\ scored.decentralization =
                   MathRound(MathMax(Num(0), MathMin(Num(100), Sub(Num(100), w))))
            /\ (p.top1 = 0 /\ p.top10 = 0 /\ p.top100 = 0
                   => scored.decentralization = Num(100))
            /\ (p.top1 = 20 /\ p.top10 = 40 /\ p.top100 = 60
                   => scored.decentralization = Num(71))
            /\ \A q \in DistPayloads :
                   q.top1 >= p.top1 /\ q.top10 >= p.top10 /\ q.top100 >= p.top100
                   => ~Less(scored.decentralization,
                            _calculateDecentralization(HolderSnapshot(q)))

\* The distribution (20, 40, 60), scored 71.
C22_Witness ==
    /\ scored.done
    /\ payload.top1 = 20 /\ payload.top10 = 40 /\ payload.top100 = 60
    /\ scored.decentralization = Num(71)

\* C26: the price-surge term of the greed score is zero for every snapshot the
\* market fetcher produces, and the greed score of every fetched asset with
\* non-zero price and volume is round(25 + 0.25 * min(100, 1.5 * top10HolderPct)),
\* whatever the price, the price change and the volume.
C26_PriceSurgeZero ==
    scored.done =>
        /\ priceSurge(scored.m) = Num(0)
        /\ (payload.market.price # 0 /\ payload.market.vol # 0 =>
               scored.scores.greed =
                   MathRound(Add(Num(25),
                       Mul(Fin(1, 4), MathMin(Num(100),
                           Mul(Fin(3, 2), scored.c.top_10_holders))))))

(***************************************************************************)
(* The pipeline's use of the cache.                                        *)
(***************************************************************************)
\* Invocation i does its cache lookup in the transition, and hits.
HitNow(i) == "lookup" \in NewSteps(i) /\ inv'[i].cacheKey \in DOMAIN cache

\* The lookup that hits returns at once: the stored value with fromCache
\* added, no fetcher launched, the cache and its timers as they were.
HitStep ==
    \A i \in Invs :
        HitNow(i) =>
            LET stored == cache[inv'[i].cacheKey]
            IN  /\ inv'[i].pc = "done"
                /\ DOMAIN inv'[i].result = DOMAIN stored \cup {"fromCache"}
                /\ inv'[i].result.fromCache = TRUE
                /\ \A x \in DOMAIN stored : inv'[i].result[x] = stored[x]
                /\ \A f \in Fetchers : inv'[i][f].st = "none"
                /\ UNCHANGED <<cache, timers, lastFresh>>

\* An invocation whose lookup hit has returned and neither launched a
\* fetcher nor scored nor stored.
HitShortCircuits ==
    \A i \in Invs :
        inv[i].hitAge >= 0 =>
            /\ Returned(i)
            /\ Steps(i) \cap {"launch", "score", "store"} = {}
            /\ \A f \in Fetchers : inv[i][f].st = "none"
            /\ "fromCache" \in DOMAIN inv[i].result

\* C23: an invocation whose cache lookup hits launches no market, holder/chain
\* or liquidity fetcher, writes nothing to the cache, and returns the stored
\* result with fromCache = true added.
C23_HitShortCircuits == []HitShortCircuits /\ [][HitStep]_vars

\* An invocation returned from the cache while the entry is still stored.
C23_Witness ==
    \E i \in Invs :
        /\ Returned(i)
        /\ inv[i].hitAge >= 0
        /\ inv[i].cacheKey \in DOMAIN cache
        /\ inv[i].result = FromCache(cache[inv[i].cacheKey])
        /\ "launch" \notin Steps(i)

\* A launched fetch of invocation i fails in the transition: the invocation
\* returns its error value in the same transition, the fetches still in
\* flight stay in flight, and no map of the analyzer changes.
FailStep ==
    \A i \in Invs, f \in Fetchers :
        inv[i][f].st = "pending" /\ inv'[i][f].st = "failed" =>
            /\ inv[i].pc = "fetching"
            /\ inv'[i].pc = "done"
            /\ IsErrorResult(inv'[i].result)
            /\ inv'[i].t1 = now
            /\ \A g \in Fetchers \ {f} : inv'[i][g] = inv[i][g]
            /\ UNCHANGED <<cache, timers, requestCounts>>

\* A fetch of an invocation that has returned settles in the transition:
\* the returned value, the cache, its timers and the windows stay.
LateSettleStep ==
    \A i \in Invs, f \in Fetchers :
        inv[i].pc = "done" /\ inv[i][f].st = "pending" /\ inv'[i][f].st # "pending" =>
            /\ inv'[i].pc = "done"
            /\ inv'[i].result = inv[i].result
            /\ UNCHANGED <<cache, timers, requestCounts>>

\* C24: when a launched fetch fails the invocation returns its error value
\* with that failure, not waiting for the fetches still in flight; these
\* run on, and their later success or failure changes neither the returned
\* value nor the cache nor any rate-limit window.
C24_FailureDoesNotWait == [][FailStep /\ LateSettleStep]_vars

\* The market fetch failed and the invocation returned while the holder
\* fetch was in flight; the holder fetch has settled since, the liquidity
\* fetch is still in flight.
C24_Witness ==
    \E i \in Invs :
        /\ Returned(i)
        /\ IsErrorResult(inv[i].result)
        /\ inv[i].market.st = "failed"
        /\ inv[i].chainP.st = "settled"
        /\ inv[i].dexP.st = "pending"

(***************************************************************************)
(* The stored windows, on SpecRL.                                          *)
(***************************************************************************)
\* Whether the timestamps of ts are in non-decreasing order.
NonDecreasing(ts) == \A a \in 1..(Len(ts) - 1) : ts[a] <= ts[a + 1]

\* C25: after every check of a client at time now, admitted or denied, the
\* client's stored window holds exactly the timestamps t of its earlier
\* checks with now - 60000 < t, then now, in non-decreasing order; the
\* timestamps at or older than now - 60000 are gone.
C25_WindowAfterCheck ==
    rlLast.client # "" =>
        LET before == rlLast.before
            stored == requestCounts[rlLast.client]
            kept   == SelectSeq(before, LAMBDA t : rlLast.at - 60000 < t)
        IN  /\ stored = Append(kept, rlLast.at)
            /\ NonDecreasing(stored)
            /\ \A k \in 1..Len(stored) : stored[k] > rlLast.at - 60000

\* A check that discarded timestamps exactly 60 s old and kept newer ones.
C25_Witness ==
    /\ rlLast.client = "c1"
    /\ \E k \in 1..Len(rlLast.before) : rlLast.before[k] = rlLast.at - RATE_WINDOW
    /\ \E k \in 1..Len(rlLast.before) : rlLast.before[k] > rlLast.at - RATE_WINDOW
    /\ Len(requestCounts["c1"]) < Len(rlLast.before)

\* The array stored for client c in counts, empty if there is none.
OwnWindow(counts, c) == IF c \in DOMAIN counts THEN counts[c] ELSE <<>>

\* In a transition the stored window of every client but the checking one
\* stays; the checking client's window becomes its own surviving timestamps
\* and now, and the check is admitted exactly when these are at most N.
IsolationStep ==
    \A c \in RLClients :
        LET own == OwnWindow(requestCounts, c)
            newer == SelectSeq(own, LAMBDA t : t > now - RATE_WINDOW)
        IN  IF now' = now /\ rlLast'.client = c
            THEN /\ OwnWindow(requestCounts', c) = Append(newer, now)
                 /\ (rlLast'.admitted <=> Len(newer) + 1 <= MAX_REQUESTS_PER_MINUTE)
            ELSE OwnWindow(requestCounts', c) = own

\* C29: a check for client A leaves the stored window of every other client
\* B unchanged, and whether a check of B is admitted depends only on B's own
\* earlier checks, whatever number of calls A has issued.
C29_WindowsIsolated == [][IsolationStep]_vars

\* Client c2 is admitted while c1, with more than N checks in its window, is
\* over its limit.
C29_Witness ==
    /\ rlLast.client = "c2"
    /\ rlLast.admitted
    /\ rlLast.before = <<>>
    /\ Len(OwnWindow(requestCounts, "c1")) > MAX_REQUESTS_PER_MINUTE
    /\ \A k \in 1..Len(requestCounts["c1"]) : requestCounts["c1"][k] = now

(***************************************************************************)
(* The cache's entries and timers, on Spec.                                *)
(***************************************************************************)
\* C27: every stored entry stays retrievable for its full TTL: an entry
\* leaves the cache only once CACHE_TTL has passed since it was stored, so a
\* timer set by an earlier store of the same key never deletes a newer entry
\* before that entry's own TTL.
C27_EntryLivesItsTtl ==
    [][ \A key \in DOMAIN cache \ DOMAIN cache' :
            now - cache[key].timestamp >= CACHE_TTL ]_vars

\* Invocation i returns in the transition.
Returns(i) ==
    /\ inv'[i].pc = "done"
    /\ \/ inv[i].pc \notin {"idle", "done"}
       \/ /\ started' # started
          /\ Free(inv[i])
          /\ \A j \in 1..(i - 1) : ~Free(inv[j])

\* A transition in which an invocation returns an error value leaves the
\* cache and its timers as they were.
ErrorReturnStep ==
    \A i \in Invs :
        Returns(i) /\ IsErrorResult(inv'[i].result) => UNCHANGED <<cache, timers>>

\* A transition that adds or replaces an entry is the return of an
\* invocation of that key whose launched fetches have all succeeded, with
\* its five scores.
StoreStep ==
    \A key \in DOMAIN cache' :
        (key \notin DOMAIN cache \/ cache'[key] # cache[key]) =>
            \E i \in Invs :
                /\ Returns(i)
                /\ inv'[i].cacheKey = key
                /\ \A f \in Fetchers : inv'[i][f].st \in {"ok", "none"}
                /\ inv'[i].market.st = "ok"
                /\ IsSuccessResult(inv'[i].result)
                /\ DOMAIN inv'[i].result.scores = ScoreNames
                /\ cache'[key] = inv'[i].result

\* C28: an invocation that returns an error value (validation failure,
\* rate-limit denial, resolution failure, fetch failure) neither adds nor
\* replaces nor removes a cache entry: the cache is written only after every
\* launched fetch has succeeded and the five scores are computed.
C28_ErrorLeavesCache == [][ErrorReturnStep /\ StoreStep]_vars

\* An invocation whose fetch failed has returned its error value, and the
\* entry another invocation stored earlier under the same key is still there.
C28_Witness ==
    \E i, j \in Invs :
        /\ i # j
        /\ Returned(i)
        /\ IsErrorResult(inv[i].result)
        /\ "launch" \in Steps(i)
        /\ "store" \in Steps(j)
        /\ inv[j].t1 < inv[i].t1
        /\ inv[i].cacheKey \in DOMAIN cache
        /\ cache[inv[i].cacheKey] = inv[j].result

\* With ENCRYPT_CACHE off nothing is ever stored: the cache is empty, no
\* timer is set, no result comes from the cache, and every invocation that
\* got as far as the lookup has launched the market fetcher.
NoCacheWhenOff ==
    ~encryptCache =>
        /\ cache = EmptyMap
        /\ timers = <<>>
        /\ \A i \in Invs :
              /\ "fromCache" \notin DOMAIN inv[i].result
              /\ inv[i].hitAge = -1
              /\ "store" \notin Steps(i)
              /\ ("lookup" \in Steps(i) =>
                     "launch" \in Steps(i) /\ inv[i].market.st # "none")

\* The cache and the timers change only with ENCRYPT_CACHE on.
StoresOnlyWhenOn == (cache' # cache \/ timers' # timers) => encryptCache

\* C30: the cache is written only when ENCRYPT_CACHE is set; with the flag
\* off the cache is empty in every reachable state, no eviction timer is
\* set, no result is flagged fromCache, and every admitted invocation with a
\* valid identity launches the market fetcher again.
C30_NoCacheWithoutFlag == []NoCacheWhenOff /\ [][StoresOnlyWhenOn]_vars

\* With the flag off, an invocation whose triple was analysed with success
\* less than CACHE_TTL before has launched the market fetcher again and
\* returned a fresh result.
C30_Witness ==
    \E i \in Invs :
        /\ ~encryptCache
        /\ Returned(i)
        /\ inv[i].prior.fresh
        /\ {"launch", "score"} \subseteq Steps(i)
        /\ inv[i].market.st = "ok"
        /\ IsSuccessResult(inv[i].result)

\* The rate-limit check of an invocation precedes its lookup; a denied
\* invocation has returned the error value and has neither looked up nor
\* fetched, and an invocation that hit the cache was admitted.
CheckedBeforeLookup ==
    \A i \in Invs :
        LET tr == inv[i].trace
        IN  /\ \A k \in 1..Len(tr) :
                  tr[k] = "lookup" => \E j \in 1..(k - 1) : tr[j] = "ratelimit"
            /\ (inv[i].thrown = <<"Rate limit">> =>
                   /\ Returned(i)
                   /\ IsErrorResult(inv[i].result)
                   /\ inv[i].hitAge = -1
                   /\ Steps(i) \cap {"lookup", "launch", "score", "store"} = {}
                   /\ \A f \in Fetchers : inv[i][f].st = "none")
            /\ (inv[i].hitAge >= 0 => inv[i].thrown = <<>>)

\* A check that leaves more than N timestamps in the client's window ends
\* the invocation with 'Rate limit', whether its key is cached or not; a
\* lookup that hits comes with the client's window grown by the timestamp
\* now, within the limit.
CheckedHitStep ==
    \A i \in Invs :
        LET c      == inv'[i].clientId
            own    == OwnWindow(requestCounts, c)
            stored == OwnWindow(requestCounts', c)
        IN  /\ ("ratelimit" \in NewSteps(i) /\ Len(stored) > MAX_REQUESTS_PER_MINUTE =>
                   /\ inv'[i].pc = "done"
                   /\ inv'[i].thrown = <<"Rate limit">>
                   /\ IsErrorResult(inv'[i].result))
            /\ (HitNow(i) =>
                   /\ "ratelimit" \in NewSteps(i)
                   /\ stored = Append(SelectSeq(own, LAMBDA t : t > now - RATE_WINDOW), now)
                   /\ Len(stored) <= MAX_REQUESTS_PER_MINUTE)

\* C31: the rate-limit check of an invocation always precedes its cache
\* lookup: a client whose check is denied gets no result, cached or fresh,
\* from that invocation, and every cache hit adds one timestamp to the
\* requesting client's window.
C31_AdmissionBeforeCache == []CheckedBeforeLookup /\ [][CheckedHitStep]_vars

\* Client c1 is denied in the first slot, no other invocation in flight,
\* while the result of its triple, stored by an earlier invocation, is in
\* the cache.
C31_Witness ==
    /\ inv[1].thrown = <<"Rate limit">>
    /\ inv[1].clientId = "c1"
    /\ IsErrorResult(inv[1].result)
    /\ inv[2].pc = "idle"
    /\ CacheKey(inv[1].coinId, inv[1].contractAddress, inv[1].chain) \in DOMAIN cache

====
